---- MODULE Spec2Model ----
(***************************************************************************)
(* Model of autoReply.js: a timer-driven worker that fetches the unseen,   *)
(* unanswered messages of one mailbox, classifies each one, sends an        *)
(* acknowledgement where the classification says so and flags the message.  *)
(*                                                                         *)
(* Strings the code inspects character by character (addresses, subjects,   *)
(* names, table cells) are sequences of one-character strings, so that      *)
(* toLowerCase, includes, startsWith, endsWith and trim are computed.       *)
(* One action is one run of autoReply between two awaits: JavaScript runs   *)
(* such a stretch atomically, and other invocations interleave only at the  *)
(* awaits.                                                                  *)
(***************************************************************************)
EXTENDS Integers, Sequences, FiniteSets, TLC

\* ------------------------------------------------------------------ bounds
\* Messages in the mailbox at start.
MaxMsgs == 2
\* Invocations of autoReply (the startup call plus the interval's ticks).
MaxTicks == 2

Hours == 0..23
Cycles == 1..MaxTicks

\* ------------------------------------------------------------- characters
UpperChars == <<"A", "B", "C", "D", "E", "F", "G", "H", "I", "J", "K", "L", "M",
                "N", "O", "P", "Q", "R", "S", "T", "U", "V", "W", "X", "Y", "Z">>
LowerChars == <<"a", "b", "c", "d", "e", "f", "g", "h", "i", "j", "k", "l", "m",
                "n", "o", "p", "q", "r", "s", "t", "u", "v", "w", "x", "y", "z">>

\* String.prototype.toLowerCase on one character.
LowerChar(ch) ==
    IF \E i \in 1..26 : UpperChars[i] = ch
    THEN LowerChars[CHOOSE i \in 1..26 : UpperChars[i] = ch]
    ELSE ch

\* String.prototype.toLowerCase
ToLowerCase(s) == [i \in 1..Len(s) |-> LowerChar(s[i])]

\* String.prototype.startsWith
StartsWith(s, p) == Len(p) <= Len(s) /\ SubSeq(s, 1, Len(p)) = p

\* String.prototype.endsWith
EndsWith(s, p) == Len(p) <= Len(s) /\ SubSeq(s, Len(s) - Len(p) + 1, Len(s)) = p

\* String.prototype.includes
Includes(s, p) == \E i \in 1..(Len(s) - Len(p) + 1) : SubSeq(s, i, i + Len(p) - 1) = p

\* The regular expressions' \s.
IsSpace(ch) == ch \in {" ", "\t", "\n", "\r"}

\* String.prototype.trim
Trim(s) ==
    IF \A i \in 1..Len(s) : IsSpace(s[i])
    THEN <<>>
    ELSE LET a == CHOOSE i \in 1..Len(s) : ~IsSpace(s[i]) /\ \A j \in 1..(i - 1) : IsSpace(s[j])
             b == CHOOSE i \in 1..Len(s) : ~IsSpace(s[i]) /\ \A j \in (i + 1)..Len(s) : IsSpace(s[j])
         IN  SubSeq(s, a, b)

\* ---------------------------------------------------------------- literals
\* process.env.EMAIL_USER: the service's own address, as configured.
EMAIL_USER == <<"I", "n", "f", "o", "@", "G", "p", ".", "i", "o">>

NO_REPLY == <<"n", "o", "-", "r", "e", "p", "l", "y">>
NOREPLY == <<"n", "o", "r", "e", "p", "l", "y">>
MAILER_DAEMON == <<"m", "a", "i", "l", "e", "r", "-", "d", "a", "e", "m", "o", "n">>
AUTO == <<"a", "u", "t", "o">>
RE_PREFIX == <<"r", "e", ":">>
NO_SUBJECT == <<"(", "N", "o", " ", "S", "u", "b", "j", "e", "c", "t", ")">>
THERE == <<"t", "h", "e", "r", "e">>
EMAIL_LABEL == <<"e", "m", "a", "i", "l">>
FULL_NAME_LABEL == <<"f", "u", "l", "l", " ", "n", "a", "m", "e">>
\* The subject of line 216 without its "Re: ".
PlainReplySubject == <<"W", "e", "'", "l", "l", " ", "R", "e", "p", "l", "y", " ", "S", "o", "o",
                       "n", " ", "A", "s", " ", "P", "o", "s", "s", "i", "b", "l", "e">>
REPLY_SUBJECT == <<"R", "e", ":", " ", "W", "e", "'", "l", "l", " ", "R", "e", "p", "l", "y",
                   " ", "S", "o", "o", "n", " ", "A", "s", " ", "P", "o", "s", "s", "i", "b",
                   "l", "e">>

ignoreDomains == { <<"@", "s", "t", "r", "i", "p", "e", ".", "c", "o", "m">>,
                   <<"@", "a", "m", "a", "z", "o", "n", ".", "c", "o", "m", ".", "a", "u">> }

\* ------------------------------------------------------------------- state
VARIABLES
    HOUR_START,   \* process.env.HOUR_START, as the number the comparison coerces it to
    HOUR_END,     \* process.env.HOUR_END, likewise
    DEBUG_MODE,   \* process.env.DEBUG_MODE: "<unset>" or the variable's text
    emails,       \* the mailbox: uid -> the message as fetched and parsed
    flags,        \* the mailbox: uid -> [seen, answered]
    outbox,       \* the replies the SMTP server accepted, in order
    cycle,        \* invocation of autoReply -> its position and local variables
    ticksLeft,    \* calls of autoReply still to come within the bound
    flagOps       \* history: uid -> addFlags calls that succeeded, by flag set

vars == <<HOUR_START, HOUR_END, DEBUG_MODE, emails, flags, outbox, cycle, ticksLeft, flagOps>>

config == <<HOUR_START, HOUR_END, DEBUG_MODE>>

Uids == 1..Len(emails)

\* ------------------------------------------------------- the fetched message
\* A message is what search() returned for it and what simpleParser made of its
\* headers:
\*   hasHeader   a part with which === 'HEADER' is present
\*   from        parsedEmail.from.value, <<>> when absent; entries [address, name]
\*   subject     parsedEmail.subject, <<>> when absent or empty
\*   replyTo     parsedEmail.replyTo.value, <<>> when absent
\*   messageId   parsedEmail.messageId as a sequence of zero or one identifier
\*   references  parsedEmail.references as a sequence of identifiers, <<>> when absent
\*   body        the TEXT part, <<>> when absent or empty; a sequence of tokens
\*               [kind, strong, text]: kind "th" is <th ..>text</th>, with
\*               text wrapped in <strong ..> when strong; kind "td" is
\*               <td ..>text</td>; kind "text" is any other text.

\* fromObj.name || ''  and  x.name || 'there'
OrElse(s, dflt) == IF s = <<>> THEN dflt ELSE s

\* /<th[^>]*>\s*<strong[^>]*>\s*Email\s*<\/strong>\s*<\/th>/i
IsEmailHeader(t) == t.kind = "th" /\ t.strong /\ ToLowerCase(Trim(t.text)) = EMAIL_LABEL

\* /<td[^>]*>\s*([^\s<]+@[^\s<]+)\s*<\/td>/i
IsAddressCell(t) ==
    /\ t.kind = "td"
    /\ LET v == Trim(t.text)
       IN  /\ \A i \in 1..Len(v) : ~IsSpace(v[i]) /\ v[i] # "<"
           /\ \E i \in 2..(Len(v) - 1) : v[i] = "@"

\* /<th[^>]*>\s*<strong[^>]*>\s*Full Name\s*<\/strong>\s*<\/th>/i
IsNameHeader(t) == t.kind = "th" /\ t.strong /\ ToLowerCase(Trim(t.text)) = FULL_NAME_LABEL

\* /<td[^>]*>\s*([^<]+?)\s*<\/td>/i
IsNameCell(t) == t.kind = "td" /\ Len(t.text) >= 1 /\ \A i \in 1..Len(t.text) : t.text[i] # "<"

\* emailBody.match(header, then lazily anything, then cell), given the positions
\* of the tokens that match the header and the cell part of the expression: the
\* position of the cell the match captures, 0 when there is no match. The match
\* starts at the leftmost header that has a cell after it and ends at the first
\* such cell.
MatchCell(headers, cells) ==
    LET starts == {i \in headers : \E j \in cells : j > i}
    IN  IF starts = {} THEN 0
        ELSE LET first == CHOOSE i \in starts : \A k \in starts : i <= k
             IN  CHOOSE j \in cells : j > first /\ \A k \in cells : k > first => j <= k

emailMatch(body) ==
    MatchCell({i \in 1..Len(body) : IsEmailHeader(body[i])},
              {i \in 1..Len(body) : IsAddressCell(body[i])})
nameMatch(body) ==
    MatchCell({i \in 1..Len(body) : IsNameHeader(body[i])},
              {i \in 1..Len(body) : IsNameCell(body[i])})

\* Lines 157-194 with the body scraped first and Reply-To used only after it.
FluentFormTargetBodyFirst(email) ==
    LET hasReplyTo == Len(email.replyTo) > 0
        e == emailMatch(email.body)
        n == nameMatch(email.body)
    IN  [targetEmail |-> IF e # 0 THEN Trim(email.body[e].text)
                         ELSE IF hasReplyTo THEN ToLowerCase(email.replyTo[1].address)
                         ELSE <<>>,
         targetName  |-> IF n # 0 THEN Trim(email.body[n].text)
                         ELSE IF hasReplyTo THEN OrElse(email.replyTo[1].name, THERE)
                         ELSE THERE]

\* Lines 157-205: the target of a message the service's own address sent.
FluentFormTarget(email) ==
    LET hasReplyTo == Len(email.replyTo) > 0
        replyToEmail == IF hasReplyTo THEN ToLowerCase(email.replyTo[1].address) ELSE <<>>
        replyToName == IF hasReplyTo THEN OrElse(email.replyTo[1].name, THERE) ELSE THERE
        scrape == replyToEmail = <<>> /\ email.body # <<>>
        e == emailMatch(email.body)
        n == nameMatch(email.body)
    IN  [targetEmail |-> IF scrape
                         THEN (IF e # 0 THEN Trim(email.body[e].text) ELSE <<>>)
                         ELSE replyToEmail,
         targetName  |-> IF scrape /\ n # 0 THEN Trim(email.body[n].text) ELSE replyToName]

Skip(reason) == [tag |-> "Skip", reason |-> reason, targetEmail |-> <<>>, targetName |-> <<>>]
Respond(e, n) == [tag |-> "Respond", reason |-> "", targetEmail |-> e, targetName |-> n]

fromEmailOf(email) == ToLowerCase(email.from[1].address)
subjectOf(email) == OrElse(email.subject, NO_SUBJECT)
isFromSelfOf(email) == fromEmailOf(email) = ToLowerCase(EMAIL_USER)

\* Line 126 with the subject compared as written, not lowercased.
OwnReplyCaseSensitive(email) ==
    isFromSelfOf(email) /\ StartsWith(subjectOf(email), RE_PREFIX)

\* Line 126: the condition of the loop-prevention guard.
IsOwnReply(email) ==
    isFromSelfOf(email) /\ StartsWith(ToLowerCase(subjectOf(email)), RE_PREFIX)

\* Lines 132-135 without the test of the subject.
AutoMailerBySenderOnly(email) ==
    \/ Includes(fromEmailOf(email), NO_REPLY)
    \/ Includes(fromEmailOf(email), NOREPLY)
    \/ Includes(fromEmailOf(email), MAILER_DAEMON)

\* Lines 132-135: the condition of the auto-mailer guard.
IsAutoMailer(email) ==
    \/ Includes(fromEmailOf(email), NO_REPLY)
    \/ Includes(fromEmailOf(email), NOREPLY)
    \/ Includes(fromEmailOf(email), MAILER_DAEMON)
    \/ Includes(ToLowerCase(subjectOf(email)), AUTO)

\* Line 142 applied to the address as written, not lowercased.
IgnoredDomainCaseSensitive(email) ==
    \E domain \in ignoreDomains : EndsWith(email.from[1].address, domain)

\* Lines 141-142: the condition of the domain ignore-list.
IsIgnoredDomain(email) ==
    \E domain \in ignoreDomains : EndsWith(fromEmailOf(email), domain)

\* Lines 126-146 with the auto-mailer guard moved in front of the loop guard.
ClassifyAutoMailerFirst(email) ==
    LET fromEmail == fromEmailOf(email)
        fromName == OrElse(email.from[1].name, <<>>)
        form == FluentFormTarget(email)
    IN  IF IsAutoMailer(email) THEN Skip("auto-mailer-detected")
        ELSE IF IsOwnReply(email) THEN Skip("self-loop")
        ELSE IF IsIgnoredDomain(email) THEN Skip("ignored-domain")
        ELSE IF isFromSelfOf(email)
        THEN (IF form.targetEmail = <<>>
              THEN Skip("unresolvable-form-correspondent")
              ELSE Respond(form.targetEmail, form.targetName))
        ELSE Respond(fromEmail, OrElse(fromName, THERE))

\* Lines 117-211: what the loop body decides for a message whose sender parsed.
Classify(email) ==
    LET fromEmail == fromEmailOf(email)
        fromName == OrElse(email.from[1].name, <<>>)
        isFluentForm == isFromSelfOf(email)
        form == FluentFormTarget(email)
    IN  IF IsOwnReply(email) THEN Skip("self-loop")
        ELSE IF IsAutoMailer(email) THEN Skip("auto-mailer-detected")
        ELSE IF IsIgnoredDomain(email) THEN Skip("ignored-domain")
        ELSE IF isFluentForm
        THEN (IF form.targetEmail = <<>>
              THEN Skip("unresolvable-form-correspondent")
              ELSE Respond(form.targetEmail, form.targetName))
        ELSE Respond(fromEmail, OrElse(fromName, THERE))

\* Lines 225-226 with the inbound references dropped.
mailOptionsWithoutReferences(email, outcome) ==
    [from       |-> EMAIL_USER,
     to         |-> outcome.targetEmail,
     toName     |-> outcome.targetName,
     subject    |-> REPLY_SUBJECT,
     inReplyTo  |-> email.messageId,
     references |-> email.messageId]

\* Lines 213-227: the reply composed for a message and its target.
mailOptions(email, outcome) ==
    [from       |-> EMAIL_USER,
     to         |-> outcome.targetEmail,
     toName     |-> outcome.targetName,
     subject    |-> REPLY_SUBJECT,
     inReplyTo  |-> email.messageId,
     references |-> IF email.references # <<>> THEN email.references ELSE email.messageId]

NoMail == [from |-> <<>>, to |-> <<>>, toName |-> <<>>, subject |-> <<>>,
           inReplyTo |-> <<>>, references |-> <<>>]

\* ------------------------------------------------------------ one invocation
\* pc is the await the invocation is suspended at ("connect", "openBox", "search",
\* "parse", "flagSeen", "send", "flagAnswered"), "idle" before the call, and how it
\* returned after it: "inactive" (line 64), "done" (lines 88 and 240), "failed"
\* (the catch of line 243). log is the history of the loop: one entry per message
\* the loop has finished with.
IdleCycle == [pc |-> "idle", connection |-> FALSE, transporter |-> FALSE,
              batch |-> <<>>, idx |-> 0, outcome |-> Skip(""), mail |-> NoMail,
              log |-> <<>>]

InFlight(c) == cycle[c].pc \notin {"idle", "inactive", "done", "failed"}

\* process.env.DEBUG_MODE ?? true, as the conditions of lines 62 and 67 read it:
\* unset gives true, and of a string only the empty one is falsy.
DebugOn == DEBUG_MODE # ""

\* Line 60.
isNightTime(hour) == hour >= HOUR_START \/ hour < HOUR_END

\* search(['UNSEEN', 'UNANSWERED']): the uids up to n that carry neither flag.
RECURSIVE Unprocessed(_)
Unprocessed(n) ==
    IF n = 0 THEN <<>>
    ELSE Unprocessed(n - 1) \o
         (IF ~flags[n].seen /\ ~flags[n].answered THEN <<n>> ELSE <<>>)

Entry(uid, outcome) == [uid |-> uid, outcome |-> outcome]

\* The for loop from position i, with `logged` what the message before i came to:
\* messages with no HEADER part are passed over (line 100) up to the first one
\* that has it, whose headers go to simpleParser (line 113); past the last
\* message the connection is ended (line 240).
Continue(r, i, logged) ==
    LET n == Len(r.batch)
        withHeader == {j \in i..n : emails[r.batch[j]].hasHeader}
        j == IF withHeader = {} THEN n + 1
             ELSE CHOOSE k \in withHeader : \A l \in withHeader : k <= l
        passed == [k \in 1..(j - i) |-> Entry(r.batch[i + k - 1], "no-header")]
        log == r.log \o logged \o passed
    IN  IF j > n
        THEN [r EXCEPT !.pc = "done", !.connection = FALSE, !.idx = j, !.log = log,
                       !.outcome = Skip(""), !.mail = NoMail]
        ELSE [r EXCEPT !.pc = "parse", !.idx = j, !.log = log,
                       !.outcome = Skip(""), !.mail = NoMail]

\* The message the invocation is working on.
CurrentUid(c) == cycle[c].batch[cycle[c].idx]

\* Lines 57-73: the call of autoReply, by line 253 or by the interval of line 254,
\* at the hour `hour` of TIMEZONE, up to its first await.
AutoReply(c, hour) ==
    /\ ticksLeft > 0
    /\ cycle[c].pc = "idle"
    /\ \A d \in 1..(c - 1) : cycle[d].pc # "idle"
    /\ ticksLeft' = ticksLeft - 1
    /\ cycle' = [cycle EXCEPT ![c].pc =
                    IF ~DebugOn /\ ~isNightTime(hour) THEN "inactive" ELSE "connect"]
    /\ UNCHANGED <<config, emails, flags, outbox, flagOps>>

\* Line 73: imaps.connect resolves.
ConnectOk(c) ==
    /\ cycle[c].pc = "connect"
    /\ cycle' = [cycle EXCEPT ![c].pc = "openBox", ![c].connection = TRUE]
    /\ UNCHANGED <<config, emails, flags, outbox, ticksLeft, flagOps>>

\* Line 73 rejecting with no catch at line 243: the rejection leaves autoReply
\* unhandled and the process ends, the interval of line 254 with it.
ConnectFailStopsTimer(c) ==
    /\ cycle[c].pc = "connect"
    /\ cycle' = [cycle EXCEPT ![c].pc = "failed"]
    /\ ticksLeft' = 0
    /\ UNCHANGED <<config, emails, flags, outbox, flagOps>>

\* Line 73 rejects: the catch of line 243 finds no connection to end.
ConnectFail(c) ==
    /\ cycle[c].pc = "connect"
    /\ cycle' = [cycle EXCEPT ![c].pc = "failed"]
    /\ UNCHANGED <<config, emails, flags, outbox, ticksLeft, flagOps>>

\* Line 74: openBox resolves; line 83 starts the search.
OpenBoxOk(c) ==
    /\ cycle[c].pc = "openBox"
    /\ cycle' = [cycle EXCEPT ![c].pc = "search"]
    /\ UNCHANGED <<config, emails, flags, outbox, ticksLeft, flagOps>>

\* Line 74 or line 83 rejects: the catch of line 243 ends the connection.
ImapFail(c) ==
    /\ cycle[c].pc \in {"openBox", "search"}
    /\ cycle' = [cycle EXCEPT ![c].pc = "failed", ![c].connection = FALSE]
    /\ UNCHANGED <<config, emails, flags, outbox, ticksLeft, flagOps>>

\* Lines 83-113: the search resolves with the messages unseen and unanswered now.
SearchOk(c) ==
    /\ cycle[c].pc = "search"
    /\ LET found == Unprocessed(Len(emails))
       IN  cycle' = [cycle EXCEPT ![c] =
              IF found = <<>>
              THEN [@ EXCEPT !.pc = "done", !.connection = FALSE]
              ELSE Continue([@ EXCEPT !.batch = found, !.transporter = TRUE], 1, <<>>)]
    /\ UNCHANGED <<config, emails, flags, outbox, ticksLeft, flagOps>>

\* Line 115 taken as one more skip: the message without a sender is flagged seen.
ParseOkFlagsNoSender(c) ==
    /\ cycle[c].pc = "parse"
    /\ LET uid == CurrentUid(c)
           email == emails[uid]
           outcome == IF email.from = <<>> THEN Skip("no-sender") ELSE Classify(email)
       IN  cycle' = [cycle EXCEPT ![c] =
              IF outcome.tag = "Skip"
              THEN [@ EXCEPT !.pc = "flagSeen", !.outcome = outcome]
              ELSE [@ EXCEPT !.pc = "send", !.outcome = outcome,
                             !.mail = mailOptions(email, outcome)]]
    /\ UNCHANGED <<config, emails, flags, outbox, ticksLeft, flagOps>>

\* Lines 113-229: simpleParser resolves; the message is passed over (line 115),
\* or a skip starts addFlags(\Seen), or a reply is composed and sendMail starts.
ParseOk(c) ==
    /\ cycle[c].pc = "parse"
    /\ LET uid == CurrentUid(c)
           email == emails[uid]
           outcome == Classify(email)
       IN  cycle' = [cycle EXCEPT ![c] =
              IF email.from = <<>>
              THEN Continue(@, @.idx + 1, <<Entry(uid, "no-sender")>>)
              ELSE IF outcome.tag = "Skip"
              THEN [@ EXCEPT !.pc = "flagSeen", !.outcome = outcome]
              ELSE [@ EXCEPT !.pc = "send", !.outcome = outcome,
                             !.mail = mailOptions(email, outcome)]]
    /\ UNCHANGED <<config, emails, flags, outbox, ticksLeft, flagOps>>

\* Line 113 rejecting with no catch inside the loop: the catch of line 243.
ParseFailAborts(c) ==
    /\ cycle[c].pc = "parse"
    /\ cycle' = [cycle EXCEPT ![c].pc = "failed", ![c].connection = FALSE]
    /\ UNCHANGED <<config, emails, flags, outbox, ticksLeft, flagOps>>

\* Line 113 rejects, or line 118 throws on a sender entry without an address:
\* the catch of line 235, then the next message.
ParseFail(c) ==
    /\ cycle[c].pc = "parse"
    /\ cycle' = [cycle EXCEPT ![c] =
                    Continue(@, @.idx + 1, <<Entry(CurrentUid(c), "parse-error")>>)]
    /\ UNCHANGED <<config, emails, flags, outbox, ticksLeft, flagOps>>

\* Lines 128, 137, 144, 200: addFlags(uid, ['\\Seen']) resolves; continue.
FlagSeenOk(c) ==
    /\ cycle[c].pc = "flagSeen"
    /\ LET uid == CurrentUid(c)
       IN  /\ flags' = [flags EXCEPT ![uid].seen = TRUE]
           /\ flagOps' = [flagOps EXCEPT ![uid].seen = @ + 1]
           /\ cycle' = [cycle EXCEPT ![c] =
                           Continue(@, @.idx + 1, <<Entry(uid, "skipped")>>)]
    /\ UNCHANGED <<config, emails, outbox, ticksLeft>>

\* The same addFlags rejects: the catch of line 235, then the next message.
FlagSeenFail(c) ==
    /\ cycle[c].pc = "flagSeen"
    /\ cycle' = [cycle EXCEPT ![c] =
                    Continue(@, @.idx + 1, <<Entry(CurrentUid(c), "skip-flag-failed")>>)]
    /\ UNCHANGED <<config, emails, flags, outbox, ticksLeft, flagOps>>

\* Lines 229-232: sendMail resolves; addFlags(uid, ['\\Seen', '\\Answered']) starts.
SendOk(c) ==
    /\ cycle[c].pc = "send"
    /\ outbox' = Append(outbox, [uid |-> CurrentUid(c), mail |-> cycle[c].mail])
    /\ cycle' = [cycle EXCEPT ![c].pc = "flagAnswered"]
    /\ UNCHANGED <<config, emails, flags, ticksLeft, flagOps>>

\* The catch of line 235 flagging the message seen after a failed send.
SendFailMarksSeen(c) ==
    /\ cycle[c].pc = "send"
    /\ flags' = [flags EXCEPT ![CurrentUid(c)].seen = TRUE]
    /\ cycle' = [cycle EXCEPT ![c] =
                    Continue(@, @.idx + 1, <<Entry(CurrentUid(c), "send-failed")>>)]
    /\ UNCHANGED <<config, emails, outbox, ticksLeft, flagOps>>

\* Line 229 rejects: the catch of line 235, then the next message.
SendFail(c) ==
    /\ cycle[c].pc = "send"
    /\ cycle' = [cycle EXCEPT ![c] =
                    Continue(@, @.idx + 1, <<Entry(CurrentUid(c), "send-failed")>>)]
    /\ UNCHANGED <<config, emails, flags, outbox, ticksLeft, flagOps>>

\* Line 232 resolves; the next message.
FlagAnsweredOk(c) ==
    /\ cycle[c].pc = "flagAnswered"
    /\ LET uid == CurrentUid(c)
       IN  /\ flags' = [flags EXCEPT ![uid] = [seen |-> TRUE, answered |-> TRUE]]
           /\ flagOps' = [flagOps EXCEPT ![uid].answered = @ + 1]
           /\ cycle' = [cycle EXCEPT ![c] =
                           Continue(@, @.idx + 1, <<Entry(uid, "replied")>>)]
    /\ UNCHANGED <<config, emails, outbox, ticksLeft>>

\* Line 232 rejects after the reply went out: the catch of line 235.
FlagAnsweredFail(c) ==
    /\ cycle[c].pc = "flagAnswered"
    /\ cycle' = [cycle EXCEPT ![c] =
                    Continue(@, @.idx + 1, <<Entry(CurrentUid(c), "answer-flag-failed")>>)]
    /\ UNCHANGED <<config, emails, flags, outbox, ticksLeft, flagOps>>

Next ==
    \E c \in Cycles :
        \/ \E hour \in Hours : AutoReply(c, hour)
        \/ ConnectOk(c)
        \/ ConnectFail(c)
        \/ OpenBoxOk(c)
        \/ ImapFail(c)
        \/ SearchOk(c)
        \/ ParseOk(c)
        \/ ParseFail(c)
        \/ FlagSeenOk(c)
        \/ FlagSeenFail(c)
        \/ SendOk(c)
        \/ SendFail(c)
        \/ FlagAnsweredOk(c)
        \/ FlagAnsweredFail(c)

\* ------------------------------------------------------------------ inputs
A_Alice == <<"A", "l", "i", "c", "e", "@", "X", ".", "o", "r", "g">>
A_NoReply == <<"N", "o", "R", "e", "p", "l", "y", "@", "x", ".", "o", "r", "g">>
A_NoDashReply == <<"N", "o", "-", "R", "e", "p", "l", "y", "@", "x", ".", "o", "r", "g">>
A_Daemon == <<"M", "A", "I", "L", "E", "R", "-", "D", "A", "E", "M", "O", "N", "@", "x", ".", "o", "r", "g">>
A_Stripe == <<"B", "o", "b", "@", "S", "t", "r", "i", "p", "e", ".", "c", "o", "m">>
A_StripeNoReply == <<"n", "o", "r", "e", "p", "l", "y", "@", "s", "t", "r", "i", "p", "e", ".", "c", "o", "m">>
A_Amazon == <<"b", "o", "b", "@", "a", "m", "a", "z", "o", "n", ".", "c", "o", "m", ".", "a", "u">>
A_NearStripe == <<"b", "o", "b", "@", "s", "t", "r", "i", "p", "e", ".", "c", "o", "m", ".", "a", "u">>
A_Self == <<"I", "N", "F", "O", "@", "g", "p", ".", "I", "O">>
A_Jane == <<"J", "a", "n", "e", "@", "x", ".", "o", "r", "g">>
N_Alice == <<"A", "l", "i", "c", "e">>
N_Jane == <<"J", "a", "n", "e", " ", "D", "o", "e">>
S_Hi == <<"H", "i">>
S_ReHi == <<"R", "E", ":", " ", "H", "i">>
S_ReAuto == <<"R", "e", ":", " ", "A", "U", "T", "O">>
S_Auto == <<"m", "y", " ", "A", "u", "t", "o">>
T_Email == <<"E", "m", "a", "i", "l">>
T_FullName == <<"F", "u", "l", "l", " ", "N", "a", "m", "e">>
T_JaneCell == <<" ", "j", "a", "n", "e", "@", "x", ".", "o", "r", "g", " ">>
T_JaneName == <<" ", "J", "a", "n", "e", " ", "D", "o", "e">>
T_NotAddress == <<"n", "/", "a">>
T_Plain == <<"h", "e", "l", "l", "o">>

Message(hasHeader, from, subject, replyTo, messageId, references, body) ==
    [hasHeader |-> hasHeader, from |-> from, subject |-> subject, replyTo |-> replyTo,
     messageId |-> messageId, references |-> references, body |-> body]

Mailbox(address, name) == [address |-> address, name |-> name]
Th(text) == [kind |-> "th", strong |-> TRUE, text |-> text]
PlainTh(text) == [kind |-> "th", strong |-> FALSE, text |-> text]
Td(text) == [kind |-> "td", strong |-> FALSE, text |-> text]
Text(text) == [kind |-> "text", strong |-> FALSE, text |-> text]

FormTable == <<Text(T_Plain), Th(T_Email), Td(T_JaneCell), Th(T_FullName), Td(T_JaneName)>>

\* A person's message, answered at the sender's address.
DirectMsg == Message(TRUE, <<Mailbox(A_Alice, N_Alice)>>, S_Hi, <<>>, <<"M1">>, <<>>, <<Text(T_Plain)>>)
\* An automated sender's message.
AutoMailerMsg == Message(TRUE, <<Mailbox(A_NoReply, <<>>)>>, S_Hi, <<>>, <<"M2">>, <<>>, <<>>)
\* A fetched item with no HEADER part.
NoHeaderMsg == Message(FALSE, <<>>, <<>>, <<>>, <<>>, <<>>, <<>>)
\* Headers in which simpleParser finds no sender.
NoSenderMsg == Message(TRUE, <<>>, S_Hi, <<>>, <<"M4">>, <<>>, <<>>)
\* One of the service's own replies, back in the mailbox.
SelfLoopMsg == Message(TRUE, <<Mailbox(A_Self, <<>>)>>, S_ReHi, <<>>, <<"M5">>, <<"M1">>, <<>>)
\* A form submission relayed through the service's own address.
FormMsg == Message(TRUE, <<Mailbox(A_Self, <<>>)>>, S_Hi, <<>>, <<"M6">>, <<>>, FormTable)

Catalogue == {DirectMsg, AutoMailerMsg, NoHeaderMsg, NoSenderMsg, SelfLoopMsg, FormMsg}

\* The messages the classification is examined on: every combination of these
\* senders, subjects, reply-to headers, threading headers and bodies.
Senders == {A_Alice, A_NoReply, A_NoDashReply, A_Daemon, A_Stripe, A_StripeNoReply,
            A_Amazon, A_NearStripe, A_Self, <<>>}
SenderNames == {<<>>, N_Alice}
Subjects == {<<>>, S_Hi, S_ReHi, S_ReAuto, S_Auto}
ReplyTos == {<<>>, <<Mailbox(A_Jane, N_Jane)>>, <<Mailbox(A_NoDashReply, <<>>)>>,
             <<Mailbox(<<>>, N_Alice)>>}
MessageIds == {<<>>, <<"M1">>}
ReferenceLists == {<<>>, <<"R1">>, <<"R1", "R2">>}
Bodies == {<<>>,
           FormTable,
           <<Th(T_Email), Td(T_NotAddress), Th(T_FullName), Td(T_JaneName)>>,
           <<Th(T_Email), Td(T_NotAddress), Td(T_JaneCell)>>,
           <<PlainTh(T_Email), Td(T_JaneCell)>>}

ParsedMessages ==
    {Message(TRUE, <<Mailbox(a, n)>>, s, r, m, f, b) :
        a \in Senders, n \in SenderNames, s \in Subjects, r \in ReplyTos,
        m \in MessageIds, f \in ReferenceLists, b \in Bodies}

\* ------------------------------------------------------------ specifications
Start(mailbox, ticks) ==
    /\ emails = mailbox
    /\ flags = [u \in 1..Len(mailbox) |-> [seen |-> FALSE, answered |-> FALSE]]
    /\ flagOps = [u \in 1..Len(mailbox) |-> [seen |-> 0, answered |-> 0]]
    /\ outbox = <<>>
    /\ cycle = [c \in Cycles |-> IdleCycle]
    /\ ticksLeft = ticks

\* The service as deployed (line 262: active from 17:00 to 08:00), with debug
\* mode left at its default or switched off, and any mailbox of the catalogue,
\* at line 253: the first AutoReply step is the startup call, the later ones
\* are the interval's.
Init ==
    /\ HOUR_START = 17
    /\ HOUR_END = 8
    /\ DEBUG_MODE \in {"<unset>", ""}
    /\ \E mailbox \in UNION {[1..n -> Catalogue] : n \in 0..MaxMsgs} :
          Start(mailbox, MaxTicks)

Spec == Init /\ [][Next]_vars

\* Every configuration of the active hours and of debug mode; one invocation.
GateInit ==
    /\ HOUR_START \in Hours
    /\ HOUR_END \in Hours
    /\ DEBUG_MODE \in {"<unset>", "", "true", "false"}
    /\ Start(<<DirectMsg, AutoMailerMsg>>, 1)

GateSpec == GateInit /\ [][Next]_vars

\* Every message of ParsedMessages, alone in the mailbox; one invocation.
ClassifyInit ==
    /\ HOUR_START = 17
    /\ HOUR_END = 8
    /\ DEBUG_MODE = "<unset>"
    /\ \E email \in ParsedMessages : Start(<<email>>, 1)

ClassifySpec == ClassifyInit /\ [][Next]_vars

\* ------------------------------------------------------------------ claims
\* Replies the SMTP server accepted for message uid.
SentCount(uid) == Cardinality({i \in 1..Len(outbox) : outbox[i].uid = uid})

\* Extraction succeeded: a HEADER part is present and the sender parsed.
Extracted(email) == email.hasHeader /\ email.from # <<>>

RespondClass(uid) == Extracted(emails[uid]) /\ Classify(emails[uid]).tag = "Respond"
SkipClass(uid) == Extracted(emails[uid]) /\ Classify(emails[uid]).tag = "Skip"

\* Invocation c is at an await of message uid, after the loop body decided on it.
Decided(c, uid) ==
    cycle[c].pc \in {"flagSeen", "send", "flagAnswered"} /\ CurrentUid(c) = uid

\* Invocation c finished with message uid with this outcome.
Logged(c, uid, outcome) ==
    \E i \in 1..Len(cycle[c].log) : cycle[c].log[i] = Entry(uid, outcome)

\* C1: a message classified Respond is, once a send for it succeeded and the
\* flagging succeeded, flagged seen+answered; it is flagged so exactly once and
\* exactly one reply is sent for it; and it is never flagged answered before a
\* send for it succeeded.
C1_RespondRepliedExactlyOnce ==
    \A uid \in Uids :
        RespondClass(uid) =>
            /\ SentCount(uid) <= 1
            /\ flagOps[uid].answered <= 1
            /\ flags[uid].answered => SentCount(uid) >= 1
            /\ \A c \in Cycles :
                  Logged(c, uid, "replied") =>
                      flags[uid].seen /\ flags[uid].answered /\ SentCount(uid) = 1

\* C2: a message classified Skip is flagged seen exactly once, never flagged
\* answered, and never replied to.
C2_SkipSeenExactlyOnce ==
    \A uid \in Uids :
        SkipClass(uid) =>
            /\ flagOps[uid].seen <= 1
            /\ flagOps[uid].answered = 0
            /\ ~flags[uid].answered
            /\ SentCount(uid) = 0
            /\ \A c \in Cycles : Logged(c, uid, "skipped") => flags[uid].seen

\* C3: when sendMail fails for a message, the failure sets neither flag on it
\* (a message for which no send ever succeeded carries no flag), and the loop
\* goes on to the messages after it: it is not aborted, it has moved past the
\* failed message, and when it ends it has finished with every message fetched.
C3_SendFailureLeavesUnflagged ==
    \A c \in Cycles :
        \A i \in 1..Len(cycle[c].log) :
            cycle[c].log[i].outcome = "send-failed" =>
                LET uid == cycle[c].log[i].uid
                IN  /\ uid = cycle[c].batch[i]
                    /\ SentCount(uid) = 0 =>
                          /\ ~flags[uid].seen
                          /\ ~flags[uid].answered
                          /\ flagOps[uid] = [seen |-> 0, answered |-> 0]
                    /\ cycle[c].pc # "failed"
                    /\ cycle[c].idx > i
                    /\ cycle[c].pc = "done" => Len(cycle[c].log) = Len(cycle[c].batch)

\* C3 witness: a send failed for the first message of a batch, nothing was ever
\* sent for it, and the same invocation went on to reply to the second one.
C3_Witness ==
    \E c \in Cycles :
        /\ Len(cycle[c].log) = 2
        /\ cycle[c].log[1].outcome = "send-failed"
        /\ SentCount(cycle[c].log[1].uid) = 0
        /\ cycle[c].log[2].outcome = "replied"

\* C4: at most one invocation of autoReply is between its start and its end.
C4_NoConcurrentCycles == Cardinality({c \in Cycles : InFlight(c)}) <= 1

\* The claims' own reading of "equals", "contains" and "ends with" in any case.
EqualsIgnoringCase(s, p) ==
    Len(s) = Len(p) /\ \A i \in 1..Len(p) : LowerChar(s[i]) = LowerChar(p[i])
ContainsIgnoringCase(s, p) ==
    \E k \in 0..(Len(s) - Len(p)) : \A i \in 1..Len(p) : LowerChar(s[k + i]) = LowerChar(p[i])
EndsWithIgnoringCase(s, p) ==
    Len(p) <= Len(s) /\ \A i \in 1..Len(p) : LowerChar(s[Len(s) - Len(p) + i]) = LowerChar(p[i])

\* The sender is the service address and the subject matches /^re:/i.
ClaimSelfLoop(email) ==
    /\ Extracted(email)
    /\ EqualsIgnoringCase(email.from[1].address, EMAIL_USER)
    /\ Len(email.subject) >= 3
    /\ email.subject[1] \in {"r", "R"}
    /\ email.subject[2] \in {"e", "E"}
    /\ email.subject[3] = ":"

\* The sender contains "noreply", "no-reply" or "mailer-daemon", or the subject
\* contains "auto", in any case.
ClaimAutoMailer(email) ==
    /\ Extracted(email)
    /\ \/ ContainsIgnoringCase(email.from[1].address, NOREPLY)
       \/ ContainsIgnoringCase(email.from[1].address, NO_REPLY)
       \/ ContainsIgnoringCase(email.from[1].address, MAILER_DAEMON)
       \/ ContainsIgnoringCase(email.subject, AUTO)

\* The sender ends with an ignored domain, in any case.
ClaimIgnoredDomain(email) ==
    /\ Extracted(email)
    /\ \E domain \in ignoreDomains : EndsWithIgnoringCase(email.from[1].address, domain)

\* C5: a message from the service address whose subject matches /^re:/i is
\* decided Skip(self-loop) by every invocation that reaches it: it is only ever
\* flagged seen (and is seen once that flagging succeeded), never flagged
\* answered and never replied to.
C5_SelfLoopSkipped ==
    \A uid \in Uids :
        ClaimSelfLoop(emails[uid]) =>
            /\ ~flags[uid].answered
            /\ flagOps[uid].answered = 0
            /\ SentCount(uid) = 0
            /\ \A c \in Cycles :
                  /\ Decided(c, uid) =>
                        cycle[c].pc = "flagSeen" /\ cycle[c].outcome = Skip("self-loop")
                  /\ \A i \in 1..Len(cycle[c].log) :
                        cycle[c].log[i].uid = uid =>
                            /\ cycle[c].log[i].outcome \in
                                  {"skipped", "skip-flag-failed", "parse-error"}
                            /\ cycle[c].log[i].outcome = "skipped" => flags[uid].seen

\* C5 witness: one of the service's own replies, written "RE:", has been flagged seen.
C5_Witness ==
    \E uid \in Uids : \E c \in Cycles :
        /\ ClaimSelfLoop(emails[uid])
        /\ emails[uid].subject[1] = "R" /\ emails[uid].subject[2] = "E"
        /\ Logged(c, uid, "skipped")
        /\ flags[uid] = [seen |-> TRUE, answered |-> FALSE]

\* C6 as stated: every message whose sender or subject looks automated is
\* decided Skip(auto-mailer-detected).
C6_AutoMailerSkipped ==
    \A uid \in Uids :
        ClaimAutoMailer(emails[uid]) =>
            \A c \in Cycles :
                Decided(c, uid) => cycle[c].outcome = Skip("auto-mailer-detected")

\* C6 amended: every message whose sender or subject looks automated, and which
\* is not one the self-loop guard matches, is decided Skip(auto-mailer-detected).
C6_AutoMailerSkippedUnlessSelfLoop ==
    \A uid \in Uids :
        ClaimAutoMailer(emails[uid]) /\ ~ClaimSelfLoop(emails[uid]) =>
            \A c \in Cycles :
                Decided(c, uid) =>
                    cycle[c].pc = "flagSeen" /\ cycle[c].outcome = Skip("auto-mailer-detected")

\* C6 witness: a message that is automated by its subject alone ("my Auto" from
\* a person's address) has been decided.
C6_Witness ==
    \E uid \in Uids : \E c \in Cycles :
        /\ ClaimAutoMailer(emails[uid])
        /\ ~ClaimSelfLoop(emails[uid])
        /\ emails[uid].from[1].address = A_Alice
        /\ Decided(c, uid)

\* C7 as stated: every message whose sender ends with an ignored domain is
\* decided Skip(ignored-domain).
C7_IgnoredDomainSkipped ==
    \A uid \in Uids :
        ClaimIgnoredDomain(emails[uid]) =>
            \A c \in Cycles :
                Decided(c, uid) => cycle[c].outcome = Skip("ignored-domain")

\* C7 amended: every message whose sender ends with an ignored domain, and which
\* neither the self-loop guard nor the auto-mailer guard matches, is decided
\* Skip(ignored-domain).
C7_IgnoredDomainSkippedUnlessEarlierGuard ==
    \A uid \in Uids :
        /\ ClaimIgnoredDomain(emails[uid])
        /\ ~ClaimSelfLoop(emails[uid])
        /\ ~ClaimAutoMailer(emails[uid])
        => \A c \in Cycles :
               Decided(c, uid) =>
                   cycle[c].pc = "flagSeen" /\ cycle[c].outcome = Skip("ignored-domain")

\* C7 witness: a message from "Bob@Stripe.com", matched only after lowercasing,
\* has been decided.
C7_Witness ==
    \E uid \in Uids : \E c \in Cycles :
        /\ emails[uid].from[1].address = A_Stripe
        /\ ~ClaimAutoMailer(emails[uid])
        /\ Decided(c, uid)

\* The hour lies in the half-open window [HOUR_START, HOUR_END) modulo 24.
InWindow(hour) == (hour - HOUR_START + 24) % 24 < (HOUR_END - HOUR_START + 24) % 24

\* C8: a call of autoReply at any hour goes on to connect exactly when debug
\* mode is on or the hour lies in [HOUR_START, HOUR_END) modulo 24, and a call
\* the gate stops opens no connection, sends nothing and changes no flag. (With
\* HOUR_START = HOUR_END the window reads as empty or as the whole day; the
\* formula leaves that configuration open.)
C8_GateIsModularWindow ==
    [][\A c \in Cycles : \A hour \in Hours :
          AutoReply(c, hour) =>
              /\ HOUR_START # HOUR_END =>
                    (cycle'[c].pc = "connect" <=> (DebugOn \/ InWindow(hour)))
              /\ cycle'[c].pc # "connect" =>
                    /\ cycle'[c].pc = "inactive"
                    /\ ~cycle'[c].connection
                    /\ outbox' = outbox
                    /\ flags' = flags]_vars

Threaded(email, reply) ==
    /\ reply.inReplyTo = email.messageId
    /\ Len(email.references) > 0 => reply.references = email.references
    /\ Len(email.references) = 0 => reply.references = email.messageId
    /\ email.messageId = <<"M1">> /\ email.references = <<>> =>
          reply.inReplyTo = <<"M1">> /\ reply.references = <<"M1">>

\* C10: every reply, composed or sent, has in-reply-to equal to the inbound
\* message-id, and references equal to the inbound references when there are
\* any, otherwise to the inbound message-id.
C10_ThreadingHeaders ==
    /\ \A i \in 1..Len(outbox) : Threaded(emails[outbox[i].uid], outbox[i].mail)
    /\ \A c \in Cycles :
          cycle[c].pc \in {"send", "flagAnswered"} =>
              Threaded(emails[CurrentUid(c)], cycle[c].mail)

\* C10 witness: a reply was sent to a message M1 without references, with
\* references M1.
C10_Witness ==
    \E i \in 1..Len(outbox) :
        LET email == emails[outbox[i].uid]
        IN  /\ email.messageId = <<"M1">>
            /\ email.references = <<>>
            /\ outbox[i].mail.references = <<"M1">>

\* Invocation c has returned.
Ended(c) == cycle[c].pc \in {"inactive", "done", "failed"}

\* C11: an invocation that has returned holds neither an open mailbox
\* connection nor an outbound-mail sender that was created and not closed.
C11_ResourcesReleased ==
    \A c \in Cycles : Ended(c) => ~cycle[c].connection /\ ~cycle[c].transporter

\* The parsed sender of the message has a non-empty address.
HasSenderAddress(email) == Extracted(email) /\ Len(email.from[1].address) > 0

\* C12: every message the loop body decides on has a non-empty sender address,
\* and a message without one is never flagged and never replied to.
C12_ClassifiedSenderNonEmpty ==
    \A uid \in Uids :
        /\ \A c \in Cycles : Decided(c, uid) => HasSenderAddress(emails[uid])
        /\ ~HasSenderAddress(emails[uid]) =>
              /\ flags[uid] = [seen |-> FALSE, answered |-> FALSE]
              /\ SentCount(uid) = 0

\* C13: what an invocation decides for a message is the outcome of the first
\* rule that matches it, in the order self-loop guard, auto-mailer guard,
\* domain ignore-list, correspondent resolution; so a message from the service
\* address with subject "Re: AUTO" is Skip(self-loop) and one from
\* noreply@stripe.com is Skip(auto-mailer-detected).
C13_FirstMatchingRuleWins ==
    \A uid \in Uids : \A c \in Cycles :
        Decided(c, uid) =>
            LET email == emails[uid]
                outcome == cycle[c].outcome
            IN  /\ ClaimSelfLoop(email) => outcome = Skip("self-loop")
                /\ ~ClaimSelfLoop(email) /\ ClaimAutoMailer(email) =>
                      outcome = Skip("auto-mailer-detected")
                /\ ~ClaimSelfLoop(email) /\ ~ClaimAutoMailer(email)
                      /\ ClaimIgnoredDomain(email) =>
                      outcome = Skip("ignored-domain")
                /\ ~ClaimSelfLoop(email) /\ ~ClaimAutoMailer(email)
                      /\ ~ClaimIgnoredDomain(email) =>
                      \/ outcome.tag = "Respond"
                      \/ outcome = Skip("unresolvable-form-correspondent")
                /\ email.from[1].address = A_Self /\ email.subject = S_ReAuto =>
                      outcome = Skip("self-loop")
                /\ email.from[1].address = A_StripeNoReply /\ email.subject = S_Hi =>
                      outcome = Skip("auto-mailer-detected")

\* C13 witness: an invocation has decided on a message from the service address
\* whose subject is "Re: AUTO", which the first two rules both match.
C13_Witness ==
    \E uid \in Uids : \E c \in Cycles :
        /\ emails[uid].from[1].address = A_Self
        /\ emails[uid].subject = S_ReAuto
        /\ Decided(c, uid)
        /\ cycle[c].outcome.reason = "self-loop"

\* The cells of a body that stand after a header cell reading `label` (in any
\* case, inside <strong>), trimmed; with needAt, only those that contain "@".
ClaimBodyCells(body, label, needAt) ==
    {Trim(body[j].text) : j \in {j \in 1..Len(body) :
        /\ body[j].kind = "td"
        /\ Trim(body[j].text) # <<>>
        /\ needAt => \E k \in 1..Len(body[j].text) : body[j].text[k] = "@"
        /\ \E i \in 1..(j - 1) :
              /\ body[i].kind = "th"
              /\ body[i].strong
              /\ EqualsIgnoringCase(Trim(body[i].text), label)}}

\* The message passed the self-loop guard, the auto-mailer guard and the
\* domain ignore-list.
ClaimPassedGuards(email) ==
    /\ Extracted(email)
    /\ ~ClaimSelfLoop(email)
    /\ ~ClaimAutoMailer(email)
    /\ ~ClaimIgnoredDomain(email)

\* The message carries a Reply-To with an address.
ClaimHasReplyTo(email) == Len(email.replyTo) > 0 /\ Len(email.replyTo[1].address) > 0

\* C14: for a message that passed guards 1-3, (a) sent by the service address
\* with a Reply-To address: the target is that address, lowercased, with the
\* Reply-To name or "there", whatever the body holds; (b) sent by the service
\* address without one: the target is an address cell after the body's Email
\* header, with the cell after the Full Name header as name when there is one,
\* and with no address cell the outcome is Skip(unresolvable-form-correspondent)
\* even when a name cell is there; (c) sent by anyone else: the target is the
\* sender address, lowercased, with the display name or "there". The reply
\* composed is addressed to that target.
C14_CorrespondentResolution ==
    \A uid \in Uids : \A c \in Cycles :
        Decided(c, uid) /\ ClaimPassedGuards(emails[uid]) =>
            LET email == emails[uid]
                outcome == cycle[c].outcome
                isForm == EqualsIgnoringCase(email.from[1].address, EMAIL_USER)
                addresses == ClaimBodyCells(email.body, T_Email, TRUE)
                names == ClaimBodyCells(email.body, T_FullName, FALSE)
            IN  /\ isForm /\ ClaimHasReplyTo(email) =>
                      /\ outcome.tag = "Respond"
                      /\ outcome.targetEmail = ToLowerCase(email.replyTo[1].address)
                      /\ outcome.targetName = OrElse(email.replyTo[1].name, THERE)
                /\ isForm /\ ~ClaimHasReplyTo(email) /\ addresses = {} =>
                      outcome = Skip("unresolvable-form-correspondent")
                /\ isForm /\ ~ClaimHasReplyTo(email) /\ addresses # {} =>
                      /\ outcome.tag = "Respond"
                      /\ outcome.targetEmail \in addresses
                      /\ names # {} => outcome.targetName \in names
                      /\ names = {} /\ email.replyTo = <<>> => outcome.targetName = THERE
                /\ ~isForm =>
                      /\ outcome.tag = "Respond"
                      /\ outcome.targetEmail = ToLowerCase(email.from[1].address)
                      /\ outcome.targetName = OrElse(email.from[1].name, THERE)
                /\ outcome.tag = "Respond" =>
                      /\ cycle[c].mail.to = outcome.targetEmail
                      /\ cycle[c].mail.toName = outcome.targetName

\* C14 witness: a form submission that carries both a Reply-To address and an
\* address in its body has been answered at the Reply-To address.
C14_Witness ==
    \E i \in 1..Len(outbox) :
        LET email == emails[outbox[i].uid]
        IN  /\ email.from[1].address = A_Self
            /\ email.replyTo = <<Mailbox(A_NoDashReply, <<>>)>>
            /\ email.body = FormTable
            /\ outbox[i].mail.to = ToLowerCase(A_NoDashReply)
            /\ outbox[i].mail.toName = THERE

\* Invocation c is inside the loop of line 95, at an await of a message.
InLoop(c) == cycle[c].pc \in {"parse", "flagSeen", "send", "flagAnswered"}

\* The outcomes a message comes to by an exception caught at line 235.
CaughtOutcomes == {"parse-error", "skip-flag-failed", "send-failed", "answer-flag-failed"}

\* The log is the batch, in fetch order, up to the message being worked on:
\* each fetched message at most once, all of them once the cycle is done.
C15_LogFollowsBatch ==
    \A c \in Cycles :
        LET r == cycle[c]
        IN  /\ \A i, j \in 1..Len(r.batch) : r.batch[i] = r.batch[j] => i = j
            /\ Len(r.log) <= Len(r.batch)
            /\ \A i \in 1..Len(r.log) : r.log[i].uid = r.batch[i]
            /\ InLoop(c) => r.idx \in 1..Len(r.batch) /\ Len(r.log) = r.idx - 1
            /\ r.pc = "done" => Len(r.log) = Len(r.batch)
            /\ r.pc = "failed" => r.batch = <<>>

\* A step leaves the finished messages' entries alone, never goes back in the
\* batch, and never leaves the loop for the catch of line 243.
C15_LoopStep ==
    \A c \in Cycles :
        /\ Len(cycle'[c].log) >= Len(cycle[c].log)
        /\ SubSeq(cycle'[c].log, 1, Len(cycle[c].log)) = cycle[c].log
        /\ cycle'[c].idx >= cycle[c].idx
        /\ InLoop(c) => /\ cycle'[c].batch = cycle[c].batch
                        /\ cycle'[c].pc # "failed"

\* C15: within one cycle every fetched message is processed exactly once, one at
\* a time and in fetch order (message i+1 is started only when message i has its
\* entry in the log), and an exception in parsing, sending or flagging a message
\* never keeps the later messages of the batch from being processed.
C15_BatchProcessedInOrder == []C15_LogFollowsBatch /\ [][C15_LoopStep]_vars

\* C15 witness: a cycle finished a batch of two in which the first message came
\* to a caught exception and the second was replied to.
C15_Witness ==
    \E c \in Cycles :
        /\ cycle[c].pc = "done"
        /\ Len(cycle[c].batch) = 2
        /\ cycle[c].log[1].outcome \in CaughtOutcomes
        /\ cycle[c].log[2].outcome = "replied"

\* An invocation that ended in the catch of line 243 fetched nothing, finished
\* no message and holds no connection; and the interval's next call can start.
C16_FailedCycleDidNothing ==
    \A c \in Cycles :
        cycle[c].pc = "failed" =>
            /\ cycle[c].batch = <<>>
            /\ cycle[c].log = <<>>
            /\ ~cycle[c].connection
            /\ ticksLeft > 0 => ENABLED (\E d \in Cycles : \E hour \in Hours : AutoReply(d, hour))

\* The step that fails changes nothing but the failing invocation: no reply, no
\* flag, no other invocation, and the interval keeps its calls.
C16_FailureStep ==
    \A c \in Cycles :
        cycle[c].pc # "failed" /\ cycle'[c].pc = "failed" =>
            /\ cycle[c].pc \in {"connect", "openBox", "search"}
            /\ UNCHANGED <<config, emails, flags, flagOps, outbox, ticksLeft>>
            /\ \A d \in Cycles \ {c} : cycle'[d] = cycle[d]

\* C16: a failure to connect, open the inbox or fetch the batch aborts only the
\* current cycle: that cycle sends no reply and changes no flag, the error stays
\* inside it, and the next timer-triggered cycle starts on the state the failed
\* one found.
C16_SetupFailureAbortsOnlyTheCycle ==
    []C16_FailedCycleDidNothing /\ [][C16_FailureStep]_vars

\* C16 witness: the first cycle failed before fetching, and the next cycle
\* replied to a message and finished.
C16_Witness ==
    /\ cycle[1].pc = "failed"
    /\ cycle[2].pc = "done"
    /\ \E i \in 1..Len(cycle[2].log) : cycle[2].log[i].outcome = "replied"

\* ------------------------------------------------------- the interval, unbounded
\* Replies in the outbox past which the interval's calls are no longer followed.
MaxOutbox == 3

\* Line 254: the interval calls autoReply again, at the hour `hour`; the record
\* of an invocation that has returned is dropped for the new one.
AutoReplyAgain(c, hour) ==
    /\ ticksLeft = 0
    /\ Ended(c)
    /\ Len(outbox) < MaxOutbox
    /\ cycle' = [cycle EXCEPT ![c] =
                    [IdleCycle EXCEPT !.pc =
                        IF ~DebugOn /\ ~isNightTime(hour) THEN "inactive" ELSE "connect"]]
    /\ UNCHANGED <<config, emails, flags, outbox, ticksLeft, flagOps>>

LiveNext ==
    \/ Next
    \/ \E c \in Cycles : \E hour \in Hours : AutoReplyAgain(c, hour)

\* Lines 62-69: the call at this hour gets past the gate.
GateOpen(hour) == DebugOn \/ isNightTime(hour)

\* Invocation c is at the await `pc` of message uid.
AtMessage(c, pc, uid) == cycle[c].pc = pc /\ CurrentUid(c) = uid

\* The interval keeps firing, and at hours at which the gate is open; a promise
\* settles; a promise that is awaited again and again resolves in the end, the
\* connection's for the mailbox and the parser's, the sender's and the flagging
\* for each message. The invocations of LiveSpec run one after the other, in
\* the first slot. The condition on ParseOk is strong fairness with the state
\* predicate that the action is enabled in written out.
Fairness ==
    /\ WF_vars(\E hour \in Hours :
                  GateOpen(hour) /\ (AutoReply(1, hour) \/ AutoReplyAgain(1, hour)))
    /\ WF_vars(FlagSeenOk(1) \/ FlagSeenFail(1))
    /\ SF_vars(ConnectOk(1))
    /\ SF_vars(OpenBoxOk(1))
    /\ SF_vars(SearchOk(1))
    /\ \A uid \in 1..MaxMsgs :
          /\ \/ <>[]~AtMessage(1, "parse", uid)
             \/ []<><<AtMessage(1, "parse", uid) /\ ParseOk(1)>>_vars
          /\ SF_vars(AtMessage(1, "send", uid) /\ SendOk(1))
          /\ SF_vars(AtMessage(1, "flagAnswered", uid) /\ FlagAnsweredOk(1))

\* The service as deployed, over a mailbox of the catalogue's messages from a
\* customer, from an auto-mailer and from the form; one call at startup, the
\* later ones by the interval.
LiveInit ==
    /\ HOUR_START = 17
    /\ HOUR_END = 8
    /\ DEBUG_MODE \in {"<unset>", ""}
    /\ \E mailbox \in [1..MaxMsgs -> {DirectMsg, AutoMailerMsg, FormMsg}] :
          Start(mailbox, 1)

LiveSpec == LiveInit /\ [][LiveNext]_vars /\ Fairness

Unflagged(uid) == ~flags[uid].seen /\ ~flags[uid].answered

\* A failed send leaves the message unflagged, and a search that resolves
\* fetches every message that is unflagged then.
C17_RetryStep ==
    \A c \in Cycles :
        /\ cycle[c].pc = "send" /\ cycle'[c].pc \notin {"send", "flagAnswered"} =>
              flags' = flags /\ outbox' = outbox
        /\ cycle[c].pc = "search" /\ cycle'[c].pc \notin {"search", "failed"} =>
              \A uid \in Uids :
                  Unflagged(uid) => \E i \in 1..Len(cycle'[c].batch) : cycle'[c].batch[i] = uid

\* C17: a message left unflagged by a failed send is fetched again by the next
\* cycle whose search resolves; and with the interval firing at open hours and
\* awaited promises resolving in the end, every message classified Respond is
\* eventually replied to and flagged seen+answered (as long as the interval's
\* calls are followed).
C17_RetryLiveness ==
    /\ [][C17_RetryStep]_vars
    /\ \A uid \in 1..MaxMsgs :
          (uid \in Uids /\ RespondClass(uid))
              ~> \/ flags[uid].seen /\ flags[uid].answered /\ SentCount(uid) >= 1
                 \/ Len(outbox) >= MaxOutbox

\* C17 witness: a cycle that fetched the second message alone, the first being
\* flagged by an earlier cycle, replied to it and flagged it: the earlier cycle
\* had fetched it too, failed on it before a reply went out and left it unflagged.
C17_Witness ==
    \E c \in Cycles :
        /\ Len(emails) = 2
        /\ flags[1].seen
        /\ cycle[c].batch = <<2>>
        /\ Logged(c, 2, "replied")
        /\ flags[2].seen /\ flags[2].answered
        /\ SentCount(2) = 1

\* C18: across all cycles at most one reply is ever sent for one inbound
\* message, also when the flagging fails after the send and when a cycle starts
\* while an earlier one that fetched the message is still in flight.
C18_AtMostOneReplyPerMessage == \A uid \in Uids : SentCount(uid) <= 1

\* ------------------------------------------- replies that come back to the inbox
\* Messages in the mailbox past which no reply is delivered to it.
MaxInbox == 3

\* The display name of line 214.
SENDER_NAME == <<"G", "a", "s", "P", "r", "o", " ", "D", "e", "t", "e", "c", "t", "i", "o", "n">>

\* A reply of lines 213-227 as the mailbox receives it and simpleParser reads
\* its headers: the From and the Subject as sent, a Message-ID of its own, the
\* message it answers added to its References, no Reply-To and a text body.
Received(mail) ==
    Message(TRUE, <<Mailbox(mail.from, SENDER_NAME)>>, mail.subject, <<>>, <<"R">>,
            mail.references, <<Text(mail.toName)>>)

\* The i-th reply sent arrives in the monitored mailbox, returned or addressed
\* to the service itself, as a new message with no flag.
Deliver(i) ==
    /\ Len(emails) < MaxInbox
    /\ emails' = Append(emails, Received(outbox[i].mail))
    /\ flags' = Append(flags, [seen |-> FALSE, answered |-> FALSE])
    /\ flagOps' = Append(flagOps, [seen |-> 0, answered |-> 0])
    /\ UNCHANGED <<config, outbox, cycle, ticksLeft>>

LoopNext ==
    \/ Next
    \/ \E i \in 1..Len(outbox) : Deliver(i)

\* A form submission whose Reply-To is the service's own address.
FormToSelfMsg ==
    Message(TRUE, <<Mailbox(A_Self, <<>>)>>, S_Hi, <<Mailbox(EMAIL_USER, <<>>)>>, <<"M7">>,
            <<>>, FormTable)

\* The service as deployed in debug mode, with one message in the mailbox: from
\* a customer, or from the form with the service itself as correspondent.
LoopInit ==
    /\ HOUR_START = 17
    /\ HOUR_END = 8
    /\ DEBUG_MODE = "<unset>"
    /\ \E email \in {DirectMsg, FormMsg, FormToSelfMsg} : Start(<<email>>, MaxTicks)

LoopSpec == LoopInit /\ [][LoopNext]_vars

\* Message uid is one of the service's own replies, come back.
OwnReply(uid) == \E i \in 1..Len(outbox) : emails[uid] = Received(outbox[i].mail)

ExcludedAddress(address) ==
    \/ ContainsIgnoringCase(address, NO_REPLY)
    \/ ContainsIgnoringCase(address, NOREPLY)
    \/ ContainsIgnoringCase(address, MAILER_DAEMON)
    \/ \E domain \in ignoreDomains : EndsWithIgnoringCase(address, domain)

\* C20: no reply is addressed to a target that contains "no-reply", "noreply"
\* or "mailer-daemon" or ends with an ignored domain, whether the target is the
\* sender, the Reply-To address or an address read from a form's body.
C20_NoReplyToExcludedTarget ==
    \A i \in 1..Len(outbox) : ~ExcludedAddress(outbox[i].mail.to)

====
